---- MODULE Spec2Model ----
(***************************************************************************)
(* GPU telemetry snapshot (get_gpus, _add_process_info, nvidia) and the    *)
(* file-backed host registry (load_hosts, save_hosts, add_host,            *)
(* delete_host, get_hosts) of server/app.py.                               *)
(*                                                                         *)
(* Text is modelled after the split the code applies to it: a command      *)
(* output is a sequence of lines, a line a sequence of fields (or of       *)
(* cells of words), a field an atomic string.  A value that may be None,   *)
(* in the code or in the shape documented for the snapshot (a metric, a    *)
(* process's memory), is a sequence: <<v>> is the value v, <<>> is None.   *)
(* A conversion (int, float, a regular-expression match) yields Ok(v) or   *)
(* Err(exc).                                                               *)
(***************************************************************************)
EXTENDS Integers, Sequences, FiniteSets, TLC

VARIABLES
    pc,        \* position of the snapshot request
    gpus,      \* the list get_gpus builds
    appended,  \* the counter of _add_process_info
    calls,     \* the external queries invoked so far, in order
    writers,   \* the strategies that appended at least one record
    lastIn,    \* what the most recent external query answered
    devOut,    \* what the device query answered
    exc,       \* the exception that left get_gpus, <<>> when none
    ret,       \* what _add_process_info returned, <<>> before it returns
    response,  \* the answer of the snapshot endpoint, <<>> before it answers
    file,      \* hosts.json
    hpc,       \* position of each registry request handler
    hreq,      \* the request each handler serves
    hosts,     \* each handler's local list
    hresp,     \* the status each handler answered, 0 before it answers
    hseen,     \* whether the url was in the list the handler loaded
    hwrote,    \* whether the handler opened the file for writing
    nreq       \* requests accepted so far

snapVars == <<pc, gpus, appended, calls, writers, lastIn, devOut, exc, ret, response>>
hostVars == <<file, hpc, hreq, hosts, hresp, hseen, hwrote, nreq>>
vars == <<pc, gpus, appended, calls, writers, lastIn, devOut, exc, ret, response,
          file, hpc, hreq, hosts, hresp, hseen, hwrote, nreq>>

\* ------------------------------------------------------------------ bounds

MaxGpuLines == 2
MaxRows == 2
MaxRequests == 3

\* ------------------------------------------------------- values and results

None == <<>>
Some(v) == <<v>>
Ok(v) == [ok |-> TRUE, v |-> v]
Err(e) == [ok |-> FALSE, exc |-> e]

RECURSIVE SeqsUpTo(_, _)
SeqsUpTo(S, n) ==
    IF n = 0 THEN {<<>>}
    ELSE LET shorter == SeqsUpTo(S, n - 1)
         IN  shorter \cup {Append(s, x) : s \in {t \in shorter : Len(t) = n - 1}, x \in S}

\* ------------------------------------------------------------- conversions

\* Decimal integer literals of the inputs and their values.
IntLits ==
    ("0" :> 0) @@ ("1" :> 1) @@ ("2" :> 2) @@ ("3" :> 3) @@ ("10" :> 10) @@ ("30" :> 30) @@
    ("45" :> 45) @@ ("50" :> 50) @@ ("100" :> 100) @@ ("250" :> 250) @@
    ("512" :> 512) @@ ("1234" :> 1234) @@ ("2048" :> 2048) @@ ("4567" :> 4567) @@
    ("8000" :> 8000)

\* Literals with a fraction, in tenths.
FracLits == ("45.7" :> 457) @@ ("512.5" :> 5125)

\* int(s) of a string: only an integer literal converts.
PyInt(s) ==
    IF s \in DOMAIN IntLits THEN Ok(IntLits[s]) ELSE Err("ValueError")

\* float(s) of a string: a number in tenths, an infinity or a NaN.
PyFloat(s) ==
    IF s \in DOMAIN IntLits THEN Ok([kind |-> "finite", tenths |-> 10 * IntLits[s]])
    ELSE IF s \in DOMAIN FracLits THEN Ok([kind |-> "finite", tenths |-> FracLits[s]])
    ELSE IF s \in {"inf", "Infinity"} THEN Ok([kind |-> "inf", tenths |-> 0])
    ELSE IF s = "nan" THEN Ok([kind |-> "nan", tenths |-> 0])
    ELSE Err("ValueError")

\* int(f) of a float: truncation; an infinity overflows, a NaN is a ValueError.
PyIntOfFloat(f) ==
    IF f.kind = "inf" THEN Err("OverflowError")
    ELSE IF f.kind = "nan" THEN Err("ValueError")
    ELSE Ok(f.tenths \div 10)

\* int(float(s))
PyIntFloat(s) ==
    LET f == PyFloat(s) IN IF f.ok THEN PyIntOfFloat(f.v) ELSE f

\* int(float(s or 0))
PyIntFloatOrZero(s) ==
    IF s = "" THEN Ok(0) ELSE PyIntFloat(s)

\* s or None
OrNone(s) == IF s = "" THEN None ELSE Some(s)

\* ---------------------------------------------------------------- get_gpus

\* fan = int(float(fan_raw)) if fan_raw and fan_raw not in ("N/A", "[N/A]") else None
ParseFan(parts) ==
    LET fan_raw == IF Len(parts) > 10 THEN parts[11] ELSE ""
    IN  IF fan_raw # "" /\ fan_raw \notin {"N/A", "[N/A]"}
        THEN LET r == PyIntFloat(fan_raw) IN IF r.ok THEN Ok(Some(r.v)) ELSE r
        ELSE Ok(None)

\* One line of at least 10 fields: the Device record, or the exception a
\* conversion raises (the conversions run in the order of the code).
ParseDeviceLine(parts) ==
    LET idx     == PyInt(parts[1])
        temp    == PyIntFloatOrZero(parts[5])
        util    == PyIntFloatOrZero(parts[6])
        used    == PyIntFloatOrZero(parts[7])
        total   == PyIntFloatOrZero(parts[8])
        p_draw  == PyIntFloatOrZero(parts[9])
        p_limit == PyIntFloatOrZero(parts[10])
        fan     == ParseFan(parts)
        all     == <<idx, temp, util, used, total, p_draw, p_limit, fan>>
        bad     == {i \in 1..Len(all) : ~all[i].ok}
    IN  IF bad # {}
        THEN all[CHOOSE i \in bad : \A j \in bad : i <= j]
        ELSE Ok([id |-> idx.v, uuid |-> OrNone(parts[2]), name |-> parts[3],
                 driverVersion |-> OrNone(parts[4]),
                 temperature |-> Some(temp.v), utilization |-> Some(util.v),
                 memory |-> [used |-> Some(used.v), total |-> Some(total.v)],
                 power |-> [draw |-> Some(p_draw.v), limit |-> Some(p_limit.v)],
                 fan |-> fan.v, processes |-> <<>>])

\* if len(parts) < 10: continue
MinFields == 10

\* The comparison off by one: a line of exactly 10 fields is dropped too.
SkipLineOffByOne(parts) == Len(parts) <= MinFields

SkipLine(parts) == Len(parts) < MinFields

\* The loop of get_gpus over the lines of the query output.
RECURSIVE ParseDevices(_, _)
ParseDevices(lines, acc) ==
    IF lines = <<>> THEN Ok(acc)
    ELSE IF SkipLine(Head(lines)) THEN ParseDevices(Tail(lines), acc)
    ELSE LET d == ParseDeviceLine(Head(lines))
         IN  IF d.ok THEN ParseDevices(Tail(lines), Append(acc, d.v)) ELSE d

\* --------------------------------------------------------- joins and counts

RECURSIVE TotalProcs(_)
TotalProcs(gs) ==
    IF gs = <<>> THEN 0 ELSE Len(Head(gs).processes) + TotalProcs(Tail(gs))

\* for g in gpus: if g.get("uuid") == gpu_uuid: g["processes"].append(rec)
JoinByUuid(gs, gpu_uuid, rec) ==
    [p \in 1..Len(gs) |->
        IF gs[p].uuid = Some(gpu_uuid)
        THEN [gs[p] EXCEPT !.processes = Append(@, rec)] ELSE gs[p]]

\* for g in gpus: if g.get("id") == idx: g["processes"].append(rec)
JoinById(gs, idx, rec) ==
    [p \in 1..Len(gs) |->
        IF gs[p].id = idx
        THEN [gs[p] EXCEPT !.processes = Append(@, rec)] ELSE gs[p]]

\* str(n) of an integer of the inputs
PyStr(n) == CHOOSE s \in DOMAIN IntLits : IntLits[s] = n

\* ----------------------------------------------------- strategy 1: NVML

BytesPerMiB == 1048576

\* memory_mb = proc.usedGpuMemory // (1024 * 1024) if hasattr(proc, 'usedGpuMemory') else 0
\* (None // int raises TypeError)
NvmlMemory(proc) ==
    IF ~proc.hasMem THEN Ok(0)
    ELSE IF proc.usedGpuMemory = None THEN Err("TypeError")
    ELSE Ok(proc.usedGpuMemory[1] \div BytesPerMiB)

\* nvmlSystemGetProcessName(pid).decode('utf-8'), or f"PID {pid}" when it raises
NvmlName(proc) ==
    IF proc.name = None THEN "PID " \o PyStr(proc.pid) ELSE proc.name[1]

\* The records the loop over all_procs appends for one device: a process
\* whose conversion raises is skipped.
RECURSIVE NvmlRecords(_)
NvmlRecords(procs) ==
    IF procs = <<>> THEN <<>>
    ELSE LET proc == Head(procs)
             m    == NvmlMemory(proc)
         IN  IF m.ok
             THEN <<[pid |-> proc.pid, name |-> NvmlName(proc), memory |-> Some(m.v)]>>
                  \o NvmlRecords(Tail(procs))
             ELSE NvmlRecords(Tail(procs))

\* nvmlDeviceGetHandleByIndex(i) and the two process queries on the handle:
\* what the library answers for device index i.
NvmlHandle(lib, i) ==
    IF i + 1 \in DOMAIN lib.handles THEN lib.handles[i + 1]
    ELSE [kind |-> "handleErr", procs |-> <<>>]

\* for i, gpu in enumerate(gpus): the index the handle of the device at
\* position p (from 1) of the list is asked by.
NvmlIndex(gs, p) == p - 1

\* for i, gpu in enumerate(gpus): ... gpu["processes"].append(...)
NvmlApply(gs, lib) ==
    IF ~lib.avail THEN gs
    ELSE [p \in 1..Len(gs) |->
             LET h == NvmlHandle(lib, NvmlIndex(gs, p))
             IN  [gs[p] EXCEPT !.processes =
                     @ \o (IF h.kind = "procs" THEN NvmlRecords(h.procs) ELSE <<>>)]]

\* ------------------------------------------------- strategy 2: XML dump

\* re.search(r"<pid>\s*(\d+)\s*</pid>", proc): the tag's text, when all digits
XmlPid(proc) ==
    IF proc.pid # None /\ proc.pid[1] \in DOMAIN IntLits
    THEN Some(IntLits[proc.pid[1]]) ELSE None

\* Texts of a used_memory tag that r"(\d+)\s*MiB" matches, and the digits matched.
MiBTexts == ("512 MiB" :> 512) @@ ("2048 MiB" :> 2048) @@ ("512MiB" :> 512)

\* pmem = int(mem_m.group(1)) if mem_m else 0
XmlMem(proc) ==
    IF proc.mem # None /\ proc.mem[1] \in DOMAIN MiBTexts
    THEN MiBTexts[proc.mem[1]] ELSE 0

\* pname = name_m.group(1).strip() if name_m else "unknown"
XmlName(proc) ==
    IF proc.name # None THEN proc.name[1] ELSE "unknown"

RECURSIVE XmlProcs(_, _, _)
XmlProcs(gs, gpu_uuid, procs) ==
    IF procs = <<>> THEN gs
    ELSE LET proc == Head(procs)
             pid  == XmlPid(proc)
         IN  IF pid = None THEN XmlProcs(gs, gpu_uuid, Tail(procs))
             ELSE XmlProcs(
                      JoinByUuid(gs, gpu_uuid,
                          [pid |-> pid[1], name |-> XmlName(proc), memory |-> Some(XmlMem(proc))]),
                      gpu_uuid, Tail(procs))

\* for gpu_block in re.findall(r"<gpu>(.*?)</gpu>", xml): a block without a
\* uuid tag is skipped.
RECURSIVE XmlApply(_, _)
XmlApply(gs, blocks) ==
    IF blocks = <<>> THEN gs
    ELSE LET b == Head(blocks)
         IN  IF b.uuid = None THEN XmlApply(gs, Tail(blocks))
             ELSE XmlApply(XmlProcs(gs, b.uuid[1], b.procs), Tail(blocks))

\* ------------------------------------------- strategy 3: compute-apps

\* Fields that hold the text "No running" / "Not Supported".
NoRunningTexts == {"No running processes found"}
NotSupportedTexts == {"[Not Supported]", "Not Supported"}

HasNoRunning(line) == \E k \in 1..Len(line) : line[k] \in NoRunningTexts
HasNotSupported(line) == \E k \in 1..Len(line) : line[k] \in NotSupportedTexts

\* "No running" not in pout
OutHasNoRunning(out) == \E k \in 1..Len(out) : HasNoRunning(out[k])

\* if pout and "No running" not in pout: break
FirstQueryAccepted(out) == out # <<>> /\ ~OutHasNoRunning(out)

\* The loop over the two queries: the queries invoked, the output kept in
\* pout, and the exception that leaves the loop (only CalledProcessError is
\* caught).
ComputeAppsQuery(q1, q2) ==
    LET one == [calls |-> <<"compute-apps:used_memory">>,
                pout |-> IF q1.ok THEN q1.v ELSE <<>>, exc |-> None]
        two == [one EXCEPT !.calls = Append(@, "compute-apps:used_gpu_memory")]
    IN  IF ~q1.ok /\ q1.exc # "CalledProcessError" THEN [one EXCEPT !.exc = Some(q1.exc)]
        ELSE IF q1.ok /\ FirstQueryAccepted(q1.v) THEN one
        ELSE IF q2.ok THEN [two EXCEPT !.pout = q2.v]
        ELSE IF q2.exc = "CalledProcessError" THEN two
        ELSE [two EXCEPT !.exc = Some(q2.exc)]

\* pmem = int(float(parts[3])) if parts[3] not in ("N/A", "[N/A]") else 0,
\* except ValueError: pmem = 0
ComputeAppsMem(s) ==
    IF s \in {"N/A", "[N/A]"} THEN Ok(0)
    ELSE LET r == PyIntFloat(s)
         IN  IF ~r.ok /\ r.exc = "ValueError" THEN Ok(0) ELSE r

\* if not line or "No running" in line or "Not Supported" in line: continue
\* if len(parts) < 4: continue;  pid = int(parts[1]) except ValueError: continue
ComputeAppsSkip(line) ==
    \/ line = <<"">>
    \/ HasNoRunning(line)
    \/ HasNotSupported(line)
    \/ Len(line) < 4
    \/ ~PyInt(line[2]).ok

\* The loop over pout.splitlines(): the list after it, and the exception
\* that ended it early.
RECURSIVE ComputeAppsApply(_, _)
ComputeAppsApply(gs, out) ==
    IF out = <<>> THEN [gpus |-> gs, exc |-> None]
    ELSE LET line == Head(out)
         IN  IF ComputeAppsSkip(line) THEN ComputeAppsApply(gs, Tail(out))
             ELSE LET pmem == ComputeAppsMem(line[4])
                  IN  IF ~pmem.ok THEN [gpus |-> gs, exc |-> Some(pmem.exc)]
                      ELSE ComputeAppsApply(
                               JoinByUuid(gs, line[1],
                                   [pid |-> PyInt(line[2]).v, name |-> line[3],
                                    memory |-> Some(pmem.v)]),
                               Tail(out))

\* ---------------------------------------------- strategy 4: plain-text table

\* cols = [c.strip() for c in line.strip("|\n").split("|")]: the cells between
\* the pipes; a line with blanks before its first pipe keeps that pipe, so
\* that an empty cell comes first.
TableCols(line) ==
    IF line.lead THEN <<<<>>>> \o line.cells ELSE line.cells

\* Words that end with "MiB", and what is left of them without it.
MiBWords == ("2048MiB" :> "2048") @@ ("512MiB" :> "512") @@ ("N/AMiB" :> "N/A")

\* int(mem_part.replace("MiB", "")) if mem_part.endswith("MiB") else int(mem_part)
TableMem(mem_part) ==
    IF mem_part \in DOMAIN MiBWords THEN PyInt(MiBWords[mem_part]) ELSE PyInt(mem_part)

\* The text of a cell: its words, one blank between them.
RECURSIVE JoinWords(_)
JoinWords(ws) ==
    IF ws = <<>> THEN ""
    ELSE IF Len(ws) = 1 THEN ws[1]
    ELSE ws[1] \o " " \o JoinWords(Tail(ws))

\* if len(cols) < 7: continue
TableMinCols == 7

\* The try block of a row: (idx, record), or the exception that skips the row
\* (cell.split()[0] of an empty cell is an IndexError).
TableRow(cols) ==
    IF cols[1] = <<>> \/ cols[4] = <<>> \/ cols[7] = <<>> THEN Err("IndexError")
    ELSE LET idx  == PyInt(cols[1][1])
             pid  == PyInt(cols[4][1])
             pmem == TableMem(cols[7][1])
         IN  IF ~idx.ok THEN idx
             ELSE IF ~pid.ok THEN pid
             ELSE IF ~pmem.ok THEN pmem
             ELSE Ok([idx |-> idx.v,
                      rec |-> [pid |-> pid.v, name |-> JoinWords(cols[6]),
                               memory |-> Some(pmem.v)]])

\* The loop over txt.splitlines(), in_block being whether a line holding
\* "Processes:" has been seen.
RECURSIVE TableApply(_, _, _)
TableApply(gs, lines, in_block) ==
    IF lines = <<>> THEN gs
    ELSE LET line == Head(lines)
             cols == TableCols(line)
         IN  IF line.procHdr THEN TableApply(gs, Tail(lines), TRUE)
             ELSE IF in_block /\ line.first = "|" /\ Len(cols) >= TableMinCols
                     /\ TableRow(cols).ok
             THEN TableApply(JoinById(gs, TableRow(cols).v.idx, TableRow(cols).v.rec),
                             Tail(lines), in_block)
             ELSE TableApply(gs, Tail(lines), in_block)

\* ------------------------------------------------------- strategy 5: pmon

\* if not line or line.startswith("#") or line.lower().startswith("gpu"): continue
\* if len(parts) < 9: continue;  idx, pid = int(...) except ValueError: continue
PmonMinCols == 9

PmonSkip(parts) ==
    \/ parts = <<>>
    \/ parts[1] \in {"#", "#gpu", "gpu", "GPU", "Gpu"}
    \/ Len(parts) < PmonMinCols
    \/ ~PyInt(parts[1]).ok
    \/ ~PyInt(parts[2]).ok

\* pmem = int(float(fb_raw)) if fb_raw not in ("-", "N/A", "[N/A]") else 0,
\* except ValueError: pmem = 0
PmonMem(fb_raw) ==
    IF fb_raw \in {"-", "N/A", "[N/A]"} THEN Ok(0)
    ELSE LET r == PyIntFloat(fb_raw)
         IN  IF ~r.ok /\ r.exc = "ValueError" THEN Ok(0) ELSE r

RECURSIVE PmonApply(_, _)
PmonApply(gs, out) ==
    IF out = <<>> THEN [gpus |-> gs, exc |-> None]
    ELSE LET parts == Head(out)
         IN  IF PmonSkip(parts) THEN PmonApply(gs, Tail(out))
             ELSE LET pmem == PmonMem(parts[8])
                  IN  IF ~pmem.ok THEN [gpus |-> gs, exc |-> Some(pmem.exc)]
                      ELSE PmonApply(
                               JoinById(gs, PyInt(parts[1]).v,
                                   [pid |-> PyInt(parts[2]).v, name |-> parts[9],
                                    memory |-> Some(pmem.v)]),
                               Tail(out))

\* ------------------------------------------------ the snapshot request

Strategies == {"nvml", "xml", "compute-apps", "table", "pmon"}

\* The strategies that have appended a record, after `name` turned gs into gs2.
Wrote(name, gs, gs2) ==
    IF TotalProcs(gs2) > TotalProcs(gs) THEN writers \cup {name} ELSE writers

\* get_gpus, up to the call of _add_process_info: run_cmd raises when the
\* tool is missing or exits non-zero; a conversion that raises ends get_gpus.
Enumerate(outs) ==
    /\ pc = "enum"
    /\ \E out \in outs :
         LET parsed == IF out.ok THEN ParseDevices(out.v, <<>>) ELSE out
         IN  /\ devOut' = out
             /\ calls' = Append(calls, "query-gpu")
             /\ IF parsed.ok
                THEN gpus' = parsed.v /\ exc' = exc /\ pc' = "nvml"
                ELSE gpus' = gpus /\ exc' = Some(parsed.exc) /\ pc' = "respond"
    /\ UNCHANGED <<appended, writers, lastIn, ret, response, hostVars>>

\* Method 1: every exception is caught inside the block.
NvmlStrategy(libs) ==
    /\ pc = "nvml"
    /\ \E lib \in libs :
         LET gs2 == NvmlApply(gpus, lib)
         IN  /\ gpus' = gs2
             /\ appended' = appended + (TotalProcs(gs2) - TotalProcs(gpus))
             /\ writers' = Wrote("nvml", gpus, gs2)
             /\ lastIn' = Some(lib)
    /\ calls' = Append(calls, "nvml")
    /\ pc' = "if_xml"
    /\ UNCHANGED <<devOut, exc, ret, response, hostVars>>

\* if appended == 0: before each of the four fallbacks
Guard(at, run, skip) ==
    /\ pc = at
    /\ \/ appended = 0 /\ pc' = run
       \/ appended # 0 /\ pc' = skip
    /\ lastIn' = None
    /\ UNCHANGED <<gpus, appended, calls, writers, devOut, exc, ret, response, hostVars>>

\* Method 2: run_cmd("nvidia-smi -x -q") and the scan of its blocks, inside
\* try / except Exception.
XmlStrategy(xmls) ==
    /\ pc = "xml"
    /\ \E xml \in xmls :
         LET gs2 == IF xml.ok THEN XmlApply(gpus, xml.v) ELSE gpus
         IN  /\ gpus' = gs2
             /\ appended' = appended + (TotalProcs(gs2) - TotalProcs(gpus))
             /\ writers' = Wrote("xml", gpus, gs2)
             /\ lastIn' = Some(xml)
    /\ calls' = Append(calls, "xml")
    /\ pc' = "if_capps"
    /\ UNCHANGED <<devOut, exc, ret, response, hostVars>>

\* Compute-apps: only CalledProcessError (around run_cmd) and ValueError
\* (around the conversions) are caught.
ComputeAppsStrategy(answers) ==
    /\ pc = "capps"
    /\ \E q1 \in answers, q2 \in answers :
         LET q   == ComputeAppsQuery(q1, q2)
             res == IF q.exc = None THEN ComputeAppsApply(gpus, q.pout)
                    ELSE [gpus |-> gpus, exc |-> q.exc]
         IN  /\ calls' = calls \o q.calls
             /\ gpus' = res.gpus
             /\ appended' = appended + (TotalProcs(res.gpus) - TotalProcs(gpus))
             /\ writers' = Wrote("compute-apps", gpus, res.gpus)
             /\ lastIn' = Some([q1 |-> q1, q2 |-> q2])
             /\ exc' = res.exc
             /\ pc' = IF res.exc = None THEN "if_table" ELSE "respond"
    /\ UNCHANGED <<devOut, ret, response, hostVars>>

\* Plain-text table: run_cmd("nvidia-smi") and the scan, inside
\* try / except Exception.
TableStrategy(txts) ==
    /\ pc = "table"
    /\ \E txt \in txts :
         LET gs2 == IF txt.ok THEN TableApply(gpus, txt.v, FALSE) ELSE gpus
         IN  /\ gpus' = gs2
             /\ appended' = appended + (TotalProcs(gs2) - TotalProcs(gpus))
             /\ writers' = Wrote("table", gpus, gs2)
             /\ lastIn' = Some(txt)
    /\ calls' = Append(calls, "table")
    /\ pc' = "if_pmon"
    /\ UNCHANGED <<devOut, exc, ret, response, hostVars>>

\* pmon: only CalledProcessError (around the block) and ValueError (around
\* the conversions) are caught; appended is not counted.
PmonStrategy(pmons) ==
    /\ pc = "pmon"
    /\ \E pmon \in pmons :
         LET res == IF pmon.ok THEN PmonApply(gpus, pmon.v)
                    ELSE [gpus |-> gpus,
                          exc |-> IF pmon.exc = "CalledProcessError" THEN None
                                  ELSE Some(pmon.exc)]
         IN  /\ gpus' = res.gpus
             /\ writers' = Wrote("pmon", gpus, res.gpus)
             /\ lastIn' = Some(pmon)
             /\ exc' = res.exc
             /\ pc' = IF res.exc = None THEN "return" ELSE "respond"
    /\ calls' = Append(calls, "pmon")
    /\ UNCHANGED <<appended, devOut, ret, response, hostVars>>

\* return gpus (of _add_process_info), then return gpus (of get_gpus)
Return ==
    /\ pc = "return"
    /\ ret' = Some([type |-> "list", value |-> gpus])
    /\ pc' = "respond"
    /\ UNCHANGED <<gpus, appended, calls, writers, lastIn, devOut, exc, response, hostVars>>

\* nvidia(): the snapshot, or the server error of an exception get_gpus raised
Respond ==
    /\ pc = "respond"
    /\ response' = IF exc = None
                   THEN Some([status |-> 200, gpus |-> Some(gpus)])
                   ELSE Some([status |-> 500, gpus |-> None])
    /\ pc' = "done"
    /\ UNCHANGED <<gpus, appended, calls, writers, lastIn, devOut, exc, ret, hostVars>>

\* --------------------------------------------- what the host may answer

CmdFailed == Err("CalledProcessError")
DecodeFailed == Err("UnicodeDecodeError")

\* A line of the device query: index, uuid, name, driver, temperature,
\* utilization, memory used and total, power draw and limit, fan.
BaseLine(idx, uuid) ==
    <<idx, uuid, "RTX", "535.1", "45", "10", "100", "8000", "50", "250", "30">>

UuidOf(idx) == "GPU-" \o idx

\* The line of device idx: whole, without its fan field and uuid, or cut short.
LineVariants(idx) ==
    { BaseLine(idx, UuidOf(idx)),
      SubSeq(BaseLine(idx, ""), 1, 10),
      SubSeq(BaseLine(idx, UuidOf(idx)), 1, 3) }

\* The lines of one host: its n devices are numbered from 0, each on one line,
\* in any order (an index the tool garbled is not a number).
OneHost(out) ==
    \A j \in 1..Len(out) :
        out[j][1] \in DOMAIN IntLits =>
            /\ IntLits[out[j][1]] < Len(out)
            /\ \A k \in 1..Len(out) : out[k][1] = out[j][1] => k = j

HostOutputs(lines) ==
    {CmdFailed} \cup {Ok(o) : o \in {q \in SeqsUpTo(lines, MaxGpuLines) : OneHost(q)}}

DevOutputs ==
    HostOutputs(UNION {LineVariants(PyStr(i)) : i \in 0..(MaxGpuLines - 1)})

\* The same with every metric field of device 0 drawn over a fraction, the
\* empty text and the two not-applicable texts, and with lines of 9 fields
\* and of a garbled index.
MetricTexts == {"45.7", "", "N/A", "[N/A]"}

LineVariantsRich(idx) ==
    LineVariants(idx)
    \cup { SubSeq(BaseLine(idx, UuidOf(idx)), 1, 9), SubSeq(BaseLine(idx, UuidOf(idx)), 1, 10) }
    \cup (IF idx = "0"
          THEN { [BaseLine(idx, UuidOf(idx)) EXCEPT ![k] = t] : k \in 5..11, t \in MetricTexts }
               \cup { BaseLine("x", UuidOf(idx)) }
          ELSE {})

DevOutputsRich ==
    HostOutputs(UNION {LineVariantsRich(PyStr(i)) : i \in 0..(MaxGpuLines - 1)})

\* NVML: a process as the library reports it; 537395200 bytes are 512.5 MiB.
NvmlProcs ==
    { [pid |-> 1234, hasMem |-> FALSE, usedGpuMemory |-> None, name |-> Some("python3")],
      [pid |-> 1234, hasMem |-> TRUE, usedGpuMemory |-> None, name |-> Some("python3")],
      [pid |-> 4567, hasMem |-> TRUE, usedGpuMemory |-> Some(537395200), name |-> Some("train.py")],
      [pid |-> 4567, hasMem |-> TRUE, usedGpuMemory |-> Some(537395200), name |-> None] }

NvmlHandles ==
    { [kind |-> "handleErr", procs |-> <<>>], [kind |-> "procsErr", procs |-> <<>>] }
    \cup { [kind |-> "procs", procs |-> ps] : ps \in SeqsUpTo(NvmlProcs, MaxRows) }

NvmlLibs ==
    { [avail |-> FALSE, handles |-> <<>>] }
    \cup { [avail |-> TRUE, handles |-> hs] : hs \in SeqsUpTo(NvmlHandles, MaxGpuLines) }

NvmlLibsFew ==
    { [avail |-> FALSE, handles |-> <<>>] }
    \cup { [avail |-> TRUE, handles |-> <<[kind |-> "procs", procs |-> <<p>>]>>] :
               p \in NvmlProcs }

\* XML: a process_info block as the texts of its pid, used_memory and
\* process_name tags (None: no such tag), a gpu block as its uuid and blocks.
XmlProcInfos ==
    { [pid |-> Some("1234"), mem |-> Some("512 MiB"), name |-> Some("train.py")],
      [pid |-> Some("1234"), mem |-> Some("N/A"), name |-> Some("train.py")],
      [pid |-> Some("4567"), mem |-> None, name |-> None],
      [pid |-> Some("N/A"), mem |-> Some("512 MiB"), name |-> Some("train.py")],
      [pid |-> None, mem |-> Some("512 MiB"), name |-> Some("train.py")] }

XmlBlocks ==
    { [uuid |-> u, procs |-> ps] :
        u \in {None, Some("GPU-0"), Some("GPU-1")}, ps \in SeqsUpTo(XmlProcInfos, 1) }

XmlOutputs == {CmdFailed} \cup {Ok(o) : o \in SeqsUpTo(XmlBlocks, MaxRows)}

XmlOutputsFew ==
    { CmdFailed,
      Ok(<<[uuid |-> Some("GPU-0"),
            procs |-> <<[pid |-> Some("1234"), mem |-> Some("512 MiB"),
                         name |-> Some("train.py")]>>]>>) }

\* compute-apps: gpu_uuid, pid, process_name, memory
ComputeAppsLines ==
    { <<"GPU-0", "1234", "python3", "2048">>,
      <<"GPU-1", "4567", "train.py", "N/A">>,
      <<"GPU-0", "4567", "train.py", "[N/A]">>,
      <<"GPU-0", "1234", "python3", "[Not Supported]">>,
      <<"GPU-0", "1234", "python3", "inf">>,
      <<"GPU-0", "N/A", "python3", "512.5">>,
      <<"No running processes found">> }

ComputeAppsAnswers ==
    {CmdFailed, DecodeFailed} \cup {Ok(o) : o \in SeqsUpTo(ComputeAppsLines, MaxRows)}

ComputeAppsAnswersFew ==
    { CmdFailed, Ok(<<>>), Ok(<<<<"GPU-0", "1234", "python3", "2048">>>>) }

\* The default report: whether the line holds "Processes:", the first
\* character of the stripped line, whether blanks precede it, and the cells
\* between its pipes as their words.
TableHeader == [procHdr |-> TRUE, first |-> "|", lead |-> FALSE, cells |-> <<<<"Processes:">>>>]
TableRule == [procHdr |-> FALSE, first |-> "+", lead |-> FALSE, cells |-> <<>>]
PlainRow(ws) == [procHdr |-> FALSE, first |-> "|", lead |-> FALSE, cells |-> <<ws>>]
PipedRow(ws, lead) ==
    [procHdr |-> FALSE, first |-> "|", lead |-> lead,
     cells |-> [k \in 1..Len(ws) |-> IF ws[k] = "" THEN <<>> ELSE <<ws[k]>>]]

TableLines ==
    { TableHeader, TableRule,
      PlainRow(<<"0", "1", "N/A", "4567", "C", "python3", "2048MiB">>),
      PlainRow(<<"1", "N/A", "N/A", "1234", "G", "train.py", "512MiB">>),
      PipedRow(<<"0", "1", "N/A", "4567", "C", "python3", "2048MiB">>, FALSE),
      PipedRow(<<"1", "N/A", "N/A", "1234", "G", "train.py", "512">>, FALSE),
      PipedRow(<<"0", "1", "N/A", "4567", "C", "python3", "N/A">>, FALSE),
      PipedRow(<<"0", "1", "N/A", "4567", "C", "python3", "2048MiB">>, TRUE),
      PipedRow(<<"", "1", "N/A", "4567", "C", "python3", "2048MiB">>, FALSE) }

TableOutputs ==
    {CmdFailed, DecodeFailed} \cup {Ok(o) : o \in SeqsUpTo(TableLines, MaxRows + 1)}

TableOutputsFew ==
    { CmdFailed,
      Ok(<<TableHeader,
           PipedRow(<<"0", "1", "N/A", "4567", "C", "python3", "2048MiB">>, FALSE)>>) }

\* pmon -s mu: gpu, pid, type, sm, mem, enc, dec, fb, command
PmonLines ==
    { <<"#", "gpu", "pid", "type", "sm", "mem", "enc", "dec", "fb", "command">>,
      <<"0", "1234", "C", "10", "1", "-", "-", "512", "python3">>,
      <<"1", "4567", "C", "10", "1", "-", "-", "-", "train.py">>,
      <<"0", "4567", "C", "10", "1", "-", "-", "N/A", "train.py">>,
      <<"0", "1234", "C", "10", "1", "-", "-", "inf", "python3">>,
      <<"0", "-", "-", "-", "-", "-", "-", "-", "-">>,
      <<"0", "1234", "C">>,
      <<>> }

PmonOutputs ==
    {CmdFailed, DecodeFailed} \cup {Ok(o) : o \in SeqsUpTo(PmonLines, MaxRows)}

PmonOutputsFew ==
    { CmdFailed, Ok(<<<<"0", "1234", "C", "10", "1", "-", "-", "512", "python3">>>>) }

\* ----------------------------------------------------- the host registry

Threads == {"t1", "t2"}
Urls == {"http://a", "http://b"}
Names == {"a", "b"}

\* request.get_json(): a body with or without its url and name
Bodies ==
    [url : {Some(u) : u \in Urls} \cup {None}, name : {Some(n) : n \in Names} \cup {None}]

NoRequest == [op |-> "none", url |-> None, name |-> None]

\* new_host (createdAt is left out: nothing reads it)
NewHost(data) == [url |-> data.url[1], name |-> data.name[1], isConnected |-> FALSE]

\* hosts.json: absent, holding a JSON list, or holding text json.load rejects
\* ("empty": just truncated, "garbled": two writers' texts, one over the other)
FileAbsent == [state |-> "absent", hosts |-> <<>>]
FileOf(hs) == [state |-> "list", hosts |-> hs]
FileEmpty == [state |-> "empty", hosts |-> <<>>]
FileGarbled == [state |-> "garbled", hosts |-> <<>>]

\* load_hosts(): the list, or [] when the file is absent or does not parse
LoadHosts(f) == IF f.state = "list" THEN f.hosts ELSE <<>>

\* The check stopping after the first entry of the list.
HasUrlFirstOnly(hs, url) == hs # <<>> /\ hs[1].url = url

\* for host in hosts: if host['url'] == data['url']
HasUrl(hs, url) == \E k \in 1..Len(hs) : hs[k].url = url

\* [h for h in hosts if h['url'] != url]
RECURSIVE WithoutUrl(_, _)
WithoutUrl(hs, url) ==
    IF hs = <<>> THEN <<>>
    ELSE IF Head(hs).url = url THEN WithoutUrl(Tail(hs), url)
    ELSE <<Head(hs)>> \o WithoutUrl(Tail(hs), url)

\* A handler answers: its local list dies with it.
Answer(t, status) ==
    /\ hresp' = [hresp EXCEPT ![t] = status]
    /\ hpc' = [hpc EXCEPT ![t] = "idle"]
    /\ hosts' = [hosts EXCEPT ![t] = <<>>]

Accept(t, req) ==
    /\ hpc[t] = "idle"
    /\ nreq < MaxRequests
    /\ nreq' = nreq + 1
    /\ hreq' = [hreq EXCEPT ![t] = req]
    /\ hseen' = [hseen EXCEPT ![t] = FALSE]
    /\ hwrote' = [hwrote EXCEPT ![t] = FALSE]

\* get_hosts(): jsonify(load_hosts())
GetHosts(t) ==
    /\ UNCHANGED snapVars
    /\ Accept(t, [op |-> "list", url |-> None, name |-> None])
    /\ Answer(t, 200)
    /\ UNCHANGED file

\* add_host(), to the validation of the body
AddHost(t) ==
    /\ UNCHANGED snapVars
    /\ \E data \in Bodies :
        /\ Accept(t, [op |-> "add", url |-> data.url, name |-> data.name])
        /\ IF data.url = None \/ data.name = None
           THEN Answer(t, 400)
           ELSE /\ hpc' = [hpc EXCEPT ![t] = "add_load"]
                /\ hresp' = [hresp EXCEPT ![t] = 0]
                /\ UNCHANGED hosts
        /\ UNCHANGED file

\* hosts = load_hosts()
AddLoad(t) ==
    /\ UNCHANGED snapVars
    /\ hpc[t] = "add_load"
    /\ hosts' = [hosts EXCEPT ![t] = LoadHosts(file)]
    /\ hseen' = [hseen EXCEPT ![t] = HasUrl(LoadHosts(file), hreq[t].url[1])]
    /\ hpc' = [hpc EXCEPT ![t] = "add_check"]
    /\ UNCHANGED <<file, hreq, hresp, hwrote, nreq>>

\* the duplicate check, then hosts.append(new_host)
AddCheck(t) ==
    /\ UNCHANGED snapVars
    /\ hpc[t] = "add_check"
    /\ IF HasUrl(hosts[t], hreq[t].url[1])
       THEN Answer(t, 409)
       ELSE /\ hosts' = [hosts EXCEPT ![t] = Append(@, NewHost(hreq[t]))]
            /\ hpc' = [hpc EXCEPT ![t] = "save_open"]
            /\ UNCHANGED hresp
    /\ UNCHANGED <<file, hreq, hseen, hwrote, nreq>>

\* delete_host(url), to hosts = load_hosts()
DeleteHost(t) ==
    /\ UNCHANGED snapVars
    /\ \E url \in Urls :
        /\ Accept(t, [op |-> "delete", url |-> Some(url), name |-> None])
        /\ hpc' = [hpc EXCEPT ![t] = "del_load"]
        /\ hresp' = [hresp EXCEPT ![t] = 0]
        /\ UNCHANGED <<file, hosts>>

DeleteLoad(t) ==
    /\ UNCHANGED snapVars
    /\ hpc[t] = "del_load"
    /\ hosts' = [hosts EXCEPT ![t] = LoadHosts(file)]
    /\ hseen' = [hseen EXCEPT ![t] = HasUrl(LoadHosts(file), hreq[t].url[1])]
    /\ hpc' = [hpc EXCEPT ![t] = "del_filter"]
    /\ UNCHANGED <<file, hreq, hresp, hwrote, nreq>>

\* the filter and the comparison of the lengths
DeleteFilter(t) ==
    /\ UNCHANGED snapVars
    /\ hpc[t] = "del_filter"
    /\ LET kept == WithoutUrl(hosts[t], hreq[t].url[1])
       IN  IF Len(kept) = Len(hosts[t])
           THEN Answer(t, 404)
           ELSE /\ hosts' = [hosts EXCEPT ![t] = kept]
                /\ hpc' = [hpc EXCEPT ![t] = "save_open"]
                /\ UNCHANGED hresp
    /\ UNCHANGED <<file, hreq, hseen, hwrote, nreq>>

\* save_hosts: open(HOSTS_FILE, 'w') truncates the file, or raises and
\* save_hosts returns False
SaveOpen(t) ==
    /\ UNCHANGED snapVars
    /\ hpc[t] = "save_open"
    /\ \/ /\ file' = FileEmpty
          /\ hwrote' = [hwrote EXCEPT ![t] = TRUE]
          /\ hpc' = [hpc EXCEPT ![t] = "save_write"]
          /\ UNCHANGED <<hosts, hresp>>
       \/ /\ Answer(t, 500)
          /\ UNCHANGED <<file, hwrote>>
    /\ UNCHANGED <<hreq, hseen, nreq>>

\* save_hosts: json.dump and the close.  The text goes to the start of the
\* file: over a text another writer has put there since the truncation it
\* leaves that text's tail, unless it is the longer.  A failed write leaves
\* the file as it is or with a part of the text.
SaveWrite(t) ==
    /\ UNCHANGED snapVars
    /\ hpc[t] = "save_write"
    /\ \/ /\ file' = FileOf(hosts[t])
          /\ Answer(t, IF hreq[t].op = "add" THEN 201 ELSE 200)
       \/ /\ file.state # "empty"
          /\ file' = FileGarbled
          /\ Answer(t, IF hreq[t].op = "add" THEN 201 ELSE 200)
       \/ /\ file' \in {file, FileGarbled}
          /\ Answer(t, 500)
    /\ UNCHANGED <<hreq, hseen, hwrote, nreq>>

\* ------------------------------------------------------ specifications

Init ==
    /\ pc = "enum"
    /\ gpus = <<>>
    /\ appended = 0
    /\ calls = <<>>
    /\ writers = {}
    /\ lastIn = None
    /\ devOut = CmdFailed
    /\ exc = None
    /\ ret = None
    /\ response = None
    /\ file = FileAbsent
    /\ hpc = [t \in Threads |-> "idle"]
    /\ hreq = [t \in Threads |-> NoRequest]
    /\ hosts = [t \in Threads |-> <<>>]
    /\ hresp = [t \in Threads |-> 0]
    /\ hseen = [t \in Threads |-> FALSE]
    /\ hwrote = [t \in Threads |-> FALSE]
    /\ nreq = 0

CheckXml == Guard("if_xml", "xml", "if_capps")
CheckComputeApps == Guard("if_capps", "capps", "if_table")
CheckTable == Guard("if_table", "table", "if_pmon")
CheckPmon == Guard("if_pmon", "pmon", "return")

Flow ==
    \/ CheckXml
    \/ CheckComputeApps
    \/ CheckTable
    \/ CheckPmon
    \/ Return
    \/ Respond

\* One snapshot request, the attribution strategies answered at large.
Next ==
    \/ Enumerate(DevOutputs)
    \/ NvmlStrategy(NvmlLibs)
    \/ XmlStrategy(XmlOutputs)
    \/ ComputeAppsStrategy(ComputeAppsAnswers)
    \/ TableStrategy(TableOutputs)
    \/ PmonStrategy(PmonOutputs)
    \/ Flow

Spec == Init /\ [][Next]_vars

\* One snapshot request, the device query answered at large.
NextEnum ==
    \/ Enumerate(DevOutputsRich)
    \/ NvmlStrategy(NvmlLibsFew)
    \/ XmlStrategy(XmlOutputsFew)
    \/ ComputeAppsStrategy(ComputeAppsAnswersFew)
    \/ TableStrategy(TableOutputsFew)
    \/ PmonStrategy(PmonOutputsFew)
    \/ Flow

SpecEnum == Init /\ [][NextEnum]_vars

\* The registry's handlers, one request at a time on each thread.
NextHosts ==
    \E t \in Threads :
        \/ GetHosts(t)
        \/ AddHost(t)
        \/ AddLoad(t)
        \/ AddCheck(t)
        \/ DeleteHost(t)
        \/ DeleteLoad(t)
        \/ DeleteFilter(t)
        \/ SaveOpen(t)
        \/ SaveWrite(t)

SpecHosts == Init /\ [][NextHosts]_vars

\* ---------------------------------------------------------------- claims

Range(q) == {q[k] : k \in 1..Len(q)}

\* The texts that stand for "not applicable".
SentinelTexts == {"N/A", "[N/A]"}

StrategyOfCall(c) ==
    IF c \in {"compute-apps:used_memory", "compute-apps:used_gpu_memory"}
    THEN "compute-apps" ELSE c

Rank ==
    ("nvml" :> 1) @@ ("xml" :> 2) @@ ("compute-apps" :> 3) @@ ("table" :> 4) @@ ("pmon" :> 5)

\* The list with every process list emptied: the list as a fallback strategy
\* finds it, since it runs only while nothing has been appended.
Cleared(gs) == [p \in 1..Len(gs) |-> [gs[p] EXCEPT !.processes = <<>>]]

\* C1, the part about the order of the strategies: once a strategy has
\* appended a record no later strategy is invoked, and all records present
\* come from one strategy.
C1_ShortCircuit ==
    /\ \A s \in writers : \A k \in 1..Len(calls) :
          calls[k] # "query-gpu" => Rank[StrategyOfCall(calls[k])] <= Rank[s]
    /\ Cardinality(writers) <= 1

\* C1, the part about the count: while the counted attributions are zero no
\* record is in any device list.
C1_NoUncountedRecord == appended = 0 => TotalProcs(gpus) = 0

\* C1: in one run over the five strategies, once a strategy has appended a
\* record no later strategy's query is invoked, all records present were
\* appended by one single strategy, and a strategy that ends with zero
\* counted attributions has left no record behind.
C1_FirstSuccessWins == C1_ShortCircuit /\ C1_NoUncountedRecord

\* C2: _add_process_info never raises to its caller: once the resolver has
\* been entered no exception leaves get_gpus, and the resolver returns.
C2_ResolverNeverRaises ==
    "nvml" \in Range(calls) =>
        /\ exc = None
        /\ pc = "done" => ret # None

\* The lines of the device query that have at least 10 fields.
LongLines(out) == {k \in 1..Len(out) : Len(out[k]) >= 10}

\* C3, the part about a failed device query: get_gpus raises, no attribution
\* strategy is invoked and the endpoint answers without a gpus list.
C3_QueryFailure ==
    (pc # "enum" /\ ~devOut.ok) =>
        /\ exc # None
        /\ calls = <<"query-gpu">>
        /\ ret = None
        /\ response # None => (response[1].status = 500 /\ response[1].gpus = None)

\* C3 as stated: a failed device query fails the snapshot, and whenever
\* get_gpus returns normally its list has one Device per line of the output.
C3_OneDevicePerLine ==
    /\ C3_QueryFailure
    /\ ret # None => Len(gpus) = Len(devOut.v)

\* C3 as amended: a failed device query fails the snapshot, and whenever
\* get_gpus returns normally its list has, in order, one Device per line of
\* the output that has at least 10 comma-separated fields; shorter lines are
\* dropped.
C3_OneDevicePerLongLine ==
    /\ C3_QueryFailure
    /\ ret # None =>
          /\ Len(gpus) = Cardinality(LongLines(devOut.v))
          /\ \A k \in LongLines(devOut.v) :
                gpus[Cardinality({j \in LongLines(devOut.v) : j <= k})].id
                    = IntLits[devOut.v[k][1]]

\* A snapshot was delivered although the query output held a line that was
\* dropped.
C3_Witness ==
    /\ pc = "done"
    /\ ret # None
    /\ response[1].status = 200
    /\ Len(gpus) > 0
    /\ Len(gpus) < Len(devOut.v)

\* The metric of a Device that field k (from 1) of its line sets.
MetricAt(g, k) ==
    CASE k = 5 -> g.temperature
      [] k = 6 -> g.utilization
      [] k = 7 -> g.memory.used
      [] k = 8 -> g.memory.total
      [] k = 9 -> g.power.draw
      [] k = 10 -> g.power.limit
      [] k = 11 -> g.fan

\* A line whose index is a number and whose metric fields are numbers, empty
\* or not-applicable texts.
MetricsOrSentinels(line) ==
    /\ Len(line) >= 10
    /\ PyInt(line[1]).ok
    /\ \A k \in 5..Len(line) : line[k] \in SentinelTexts \/ PyIntFloatOrZero(line[k]).ok

\* C4: a device line with a metric field holding "N/A" or "[N/A]" still gives
\* a Device, with None or the default 0 for that field, and the endpoint
\* answers successfully.
C4_PartialFieldLoss ==
    (/\ pc # "enum"
     /\ devOut.ok
     /\ \A k \in 1..Len(devOut.v) : MetricsOrSentinels(devOut.v[k])) =>
        /\ exc = None
        /\ Len(gpus) = Len(devOut.v)
        /\ \A p \in 1..Len(gpus) : \A k \in 5..Len(devOut.v[p]) :
              devOut.v[p][k] \in SentinelTexts => MetricAt(gpus[p], k) \in {None, Some(0)}
        /\ pc = "done" => response[1].status = 200

\* C4 for the fan field alone.
C4_FanOnly ==
    (/\ pc # "enum"
     /\ devOut.ok
     /\ \A k \in 1..Len(devOut.v) :
           /\ MetricsOrSentinels(devOut.v[k])
           /\ \A j \in 5..10 : devOut.v[k][j] \notin SentinelTexts) =>
        /\ exc = None
        /\ Len(gpus) = Len(devOut.v)
        /\ \A p \in 1..Len(gpus) :
              (Len(devOut.v[p]) > 10 /\ devOut.v[p][11] \in SentinelTexts) => gpus[p].fan = None
        /\ pc = "done" => response[1].status = 200

\* Some device holds a record of process pid with memory mem.
HasRecord(gs, pid, mem) ==
    \E p \in 1..Len(gs) : \E r \in Range(gs[p].processes) : r.pid = pid /\ r.memory = mem

\* C5 for NVML: a process without usedGpuMemory, or with None for it, is
\* recorded with an absent memory.
C5_Nvml ==
    (pc = "if_xml" /\ lastIn # None /\ lastIn[1].avail) =>
        \A i \in 1..Len(lastIn[1].handles) :
            (i <= Len(gpus) /\ lastIn[1].handles[i].kind = "procs") =>
                \A proc \in Range(lastIn[1].handles[i].procs) :
                    (~proc.hasMem \/ proc.usedGpuMemory = None) =>
                        HasRecord(gpus, proc.pid, None)

\* C5 for the XML dump: a process whose used_memory tag holds a
\* not-applicable text is recorded with an absent memory.
C5_Xml ==
    (pc = "if_capps" /\ lastIn # None /\ lastIn[1].ok) =>
        \A b \in Range(lastIn[1].v) :
            (b.uuid # None /\ \E p \in 1..Len(gpus) : gpus[p].uuid = b.uuid) =>
                \A proc \in Range(b.procs) :
                    (XmlPid(proc) # None /\ proc.mem # None /\ proc.mem[1] \in SentinelTexts) =>
                        HasRecord(gpus, XmlPid(proc)[1], None)

\* C5 for compute-apps: a parsed row whose memory is a not-applicable text is
\* recorded with memory 0.
C5_ComputeApps ==
    (pc = "if_table" /\ lastIn # None) =>
        \A line \in Range(ComputeAppsQuery(lastIn[1].q1, lastIn[1].q2).pout) :
            (/\ ~ComputeAppsSkip(line)
             /\ line[4] \in SentinelTexts
             /\ \E p \in 1..Len(gpus) : gpus[p].uuid = Some(line[1])) =>
                HasRecord(gpus, PyInt(line[2]).v, Some(0))

\* A row of the Processes table with a cell for each of its 7 columns, after
\* the header has been seen.
PipedProcessRow(txt, k) ==
    /\ \E h \in 1..(k - 1) : txt[h].procHdr
    /\ ~txt[k].procHdr /\ txt[k].first = "|" /\ ~txt[k].lead
    /\ Len(txt[k].cells) = 7
    /\ \A c \in {1, 4, 6, 7} : txt[k].cells[c] # <<>>
    /\ PyInt(txt[k].cells[1][1]).ok
    /\ PyInt(txt[k].cells[4][1]).ok

\* C5 for the plain-text table: a row whose memory column is a not-applicable
\* text is recorded with memory 0.
C5_Table ==
    (pc = "if_pmon" /\ lastIn # None /\ lastIn[1].ok) =>
        \A k \in 1..Len(lastIn[1].v) :
            (/\ PipedProcessRow(lastIn[1].v, k)
             /\ lastIn[1].v[k].cells[7][1] \in SentinelTexts
             /\ \E p \in 1..Len(gpus) :
                   gpus[p].id = PyInt(lastIn[1].v[k].cells[1][1]).v) =>
                HasRecord(gpus, PyInt(lastIn[1].v[k].cells[4][1]).v, Some(0))

\* C5 for pmon: a row whose fb column is "-" or a not-applicable text is
\* recorded with memory 0.
C5_Pmon ==
    (pc = "return" /\ lastIn # None /\ lastIn[1].ok) =>
        \A parts \in Range(lastIn[1].v) :
            (/\ ~PmonSkip(parts)
             /\ parts[8] \in SentinelTexts \cup {"-"}
             /\ \E p \in 1..Len(gpus) : gpus[p].id = PyInt(parts[1]).v) =>
                HasRecord(gpus, PyInt(parts[2]).v, Some(0))

\* C5: in every strategy a process whose memory is reported as not
\* applicable is recorded, with an absent memory in strategies 1-2 and with
\* memory 0 in strategies 3-5.
C5_SentinelMemory == C5_Nvml /\ C5_Xml /\ C5_ComputeApps /\ C5_Table /\ C5_Pmon

\* A row of the Processes table between one pair of border pipes, its 7
\* fields separated by blanks: gpu, GI, CI, pid, type, name, <N>MiB.
PlainProcessRow(txt, k) ==
    /\ \E h \in 1..(k - 1) : txt[h].procHdr
    /\ ~txt[k].procHdr /\ txt[k].first = "|" /\ ~txt[k].lead
    /\ Len(txt[k].cells) = 1
    /\ Len(txt[k].cells[1]) = 7
    /\ PyInt(txt[k].cells[1][1]).ok
    /\ PyInt(txt[k].cells[1][4]).ok
    /\ txt[k].cells[1][7] \in DOMAIN MiBWords
    /\ PyInt(MiBWords[txt[k].cells[1][7]]).ok

\* C6: when strategies 1-3 attribute nothing, the plain-text table strategy
\* appends {pid, name, memory: N} of a row "| gpu GI CI pid type name NMiB |"
\* to the Device whose index is the row's gpu index.
C6_PlainTextRow ==
    (pc = "if_pmon" /\ lastIn # None /\ lastIn[1].ok) =>
        \A k \in 1..Len(lastIn[1].v) :
            PlainProcessRow(lastIn[1].v, k) =>
                LET ws == lastIn[1].v[k].cells[1]
                IN  \A p \in 1..Len(gpus) :
                        gpus[p].id = PyInt(ws[1]).v =>
                            [pid |-> PyInt(ws[4]).v, name |-> ws[6],
                             memory |-> Some(PyInt(MiBWords[ws[7]]).v)]
                                \in Range(gpus[p].processes)

\* No two entries of a list have the same url.
NoDuplicateUrl(hs) ==
    \A i \in 1..Len(hs) : \A j \in 1..Len(hs) : hs[i].url = hs[j].url => i = j

C7_RaceWitness ==
    \E t \in Threads : \E u \in Threads \ {t} :
        /\ hreq[t].op = "add" /\ hresp[t] = 201
        /\ hreq[u].op = "add" /\ hresp[u] = 201 /\ hreq[u].url = hreq[t].url
        /\ hpc[t] = "idle" /\ hpc[u] = "idle"
        /\ nreq = 2

\* C8: _add_process_info returns the number of process records appended
\* during the pass.
C8_ReturnsCount ==
    ret # None => (ret[1].type = "int" /\ ret[1].value = TotalProcs(gpus))

\* C8, the counter alone: when _add_process_info returns, appended is the
\* number of records in the device lists.
C8_CounterIsTotal == ret # None => appended = TotalProcs(gpus)

\* C9: the second column-name variant is queried whenever the first exits
\* non-zero or yields no usable row, and its rows are then parsed.
C9_SecondVariantTried ==
    (/\ pc \in {"if_table", "respond"}
     /\ lastIn # None
     /\ "compute-apps:used_memory" \in Range(calls)
     /\ "table" \notin Range(calls)
     /\ \/ lastIn[1].q1 = CmdFailed
        \/ lastIn[1].q1.ok /\ \A line \in Range(lastIn[1].q1.v) : ComputeAppsSkip(line)) =>
        /\ "compute-apps:used_gpu_memory" \in Range(calls)
        /\ lastIn[1].q2.ok =>
              /\ gpus = ComputeAppsApply(Cleared(gpus), lastIn[1].q2.v).gpus
              /\ exc = ComputeAppsApply(Cleared(gpus), lastIn[1].q2.v).exc

\* C10: a process NVML reports for device index i is appended only to the
\* Device whose id is i.
C10_NvmlJoinById ==
    (pc = "if_xml" /\ lastIn # None /\ lastIn[1].avail) =>
        \A p \in 1..Len(gpus) : \A r \in Range(gpus[p].processes) :
            /\ NvmlHandle(lastIn[1], gpus[p].id).kind = "procs"
            /\ r \in Range(NvmlRecords(NvmlHandle(lastIn[1], gpus[p].id).procs))

====
